---- MODULE Spec2Model ----
(***************************************************************************)
(* Counter service (content/microservices/counter-service/app.py).         *)
(*                                                                         *)
(* Four Flask handlers, each of which makes one call on a shared redis     *)
(* client and turns the result, or the exception, into a JSON response.    *)
(* The handlers run concurrently; the only shared state is the value of    *)
(* the key 'counter' in the store.  A request is modelled from the moment  *)
(* its handler calls the client: the store executes the command            *)
(* (RedisExec), and the handler then either gets the reply (try branch) or *)
(* an exception (except branch).  The connection can fail before the       *)
(* command reaches the store or after the store has executed it.           *)
(*                                                                         *)
(* At most MaxInFlight requests are handled at the same time; the request  *)
(* answered last stays visible in `last`.                                  *)
(*                                                                         *)
(* Redis's 64-bit limit on INCR is outside the model: the counter is kept  *)
(* at or below MaxCount by the guard of Call.                              *)
(***************************************************************************)
EXTENDS Integers, Sequences, FiniteSets, Bags, TLC

\* ---- bounds -------------------------------------------------------------
MaxInFlight == 2     \* requests being handled at the same time
MaxCount == 3        \* increments are not issued beyond this counter value

\* ---- values -------------------------------------------------------------
Unset == [t |-> "unset"]

\* a value of the redis keyspace: no key, or a string of characters
Nil == [t |-> "nil"]
Bulk(s) == [t |-> "str", s |-> s]

\* Python values seen by the handlers (decode_responses=True)
PyNone == [t |-> "None"]
PyInt(n) == [t |-> "int", n |-> n]
PyStr(s) == [t |-> "str", s |-> s]
PyTrue == [t |-> "bool", b |-> TRUE]
PyExc(m) == [t |-> "exc", msg |-> m]

IsExc(v) == v.t = "exc"

\* ---- decimal text <-> integer --------------------------------------------
Digits == <<"0", "1", "2", "3", "4", "5", "6", "7", "8", "9">>

IsDigit(c) == \E i \in 1..10 : Digits[i] = c

DigitVal(c) == (CHOOSE i \in 1..10 : Digits[i] = c) - 1

RECURSIVE NatToStr(_)
NatToStr(n) ==
  IF n < 10 THEN <<Digits[n + 1]>>
  ELSE NatToStr(n \div 10) \o <<Digits[(n % 10) + 1]>>

\* the text redis stores for an integer (set('counter', 0) stores "0")
IntToStr(n) == IF n < 0 THEN <<"-">> \o NatToStr(0 - n) ELSE NatToStr(n)

RECURSIVE StrToNat(_)
StrToNat(s) ==
  IF Len(s) = 0 THEN 0
  ELSE StrToNat(SubSeq(s, 1, Len(s) - 1)) * 10 + DigitVal(s[Len(s)])

IsIntStr(s) ==
  /\ Len(s) > 0
  /\ LET d == IF s[1] = "-" THEN Tail(s) ELSE s
     IN  Len(d) > 0 /\ \A i \in 1..Len(d) : IsDigit(d[i])

StrToInt(s) == IF s[1] = "-" THEN 0 - StrToNat(Tail(s)) ELSE StrToNat(s)

\* Python's int(): an int is itself, a str is parsed, anything else raises
int(v) ==
  IF v.t = "int" THEN v
  ELSE IF v.t = "str" /\ IsIntStr(v.s) THEN PyInt(StrToInt(v.s))
  ELSE IF v.t = "str" THEN PyExc("invalid literal for int() with base 10")
  ELSE PyExc("int() argument must be a string or a real number")

\* ---- the store's commands: value of the key -> new value and reply -------
RedisIncrOld(s) ==
  LET n == IF s = Nil THEN 0 ELSE StrToInt(s.s)
  IN  IF s # Nil /\ ~IsIntStr(s.s)
      THEN [store |-> s, reply |-> PyExc("ERR value is not an integer or out of range")]
      ELSE [store |-> Bulk(IntToStr(n + 1)), reply |-> PyInt(n)]

RedisDecr(s) ==
  LET n == IF s = Nil THEN 0 ELSE StrToInt(s.s)
  IN  IF s # Nil /\ ~IsIntStr(s.s)
      THEN [store |-> s, reply |-> PyExc("ERR value is not an integer or out of range")]
      ELSE [store |-> Bulk(IntToStr(n - 1)), reply |-> PyInt(n - 1)]

RedisIncr(s) ==
  LET n == IF s = Nil THEN 0 ELSE StrToInt(s.s)
  IN  IF s # Nil /\ ~IsIntStr(s.s)
      THEN [store |-> s, reply |-> PyExc("ERR value is not an integer or out of range")]
      ELSE [store |-> Bulk(IntToStr(n + 1)), reply |-> PyInt(n + 1)]

RedisGetCreate(s) ==
  IF s = Nil THEN [store |-> Bulk(IntToStr(0)), reply |-> PyStr(IntToStr(0))]
  ELSE [store |-> s, reply |-> PyStr(s.s)]

RedisGet(s) ==
  [store |-> s, reply |-> IF s = Nil THEN PyNone ELSE PyStr(s.s)]

RedisSetNX(s, n) ==
  [store |-> IF s = Nil THEN Bulk(IntToStr(n)) ELSE s, reply |-> PyTrue]

RedisSet(s, n) == [store |-> Bulk(IntToStr(n)), reply |-> PyTrue]

RedisPing(s) == [store |-> s, reply |-> PyTrue]

Redis(cmd, s) ==
  CASE cmd = "INCR" -> RedisIncr(s)
    [] cmd = "GET"  -> RedisGet(s)
    [] cmd = "SET"  -> RedisSet(s, 0)
    [] cmd = "PING" -> RedisPing(s)

\* ---- the handlers: result of the client call -> (body, status) -----------
Response(status, body) == [status |-> status, body |-> body]

\* str(e)
str(e) == e.msg

incrementOld(res) ==
  IF IsExc(res) THEN Response(500, [error |-> str(res)])
  ELSE Response(200, [count |-> res.n - 1])

incrementNoExcept(res) ==
  IF IsExc(res) THEN Response(500, [html |-> "Internal Server Error"])
  ELSE Response(200, [count |-> res.n])

increment(res) ==
  IF IsExc(res) THEN Response(500, [error |-> str(res)])
  ELSE Response(200, [count |-> res.n])

get_countNoNone(res) ==
  IF IsExc(res) THEN Response(500, [error |-> str(res)])
  ELSE LET n == int(res)
       IN  IF IsExc(n) THEN Response(500, [error |-> str(n)])
           ELSE Response(200, [count |-> n.n])

get_count(res) ==
  IF IsExc(res) THEN Response(500, [error |-> str(res)])
  ELSE LET count == IF res.t = "None" THEN PyInt(0) ELSE res
           n == int(count)
       IN  IF IsExc(n) THEN Response(500, [error |-> str(n)])
           ELSE Response(200, [count |-> n.n])

reset(res) ==
  IF IsExc(res) THEN Response(500, [error |-> str(res)])
  ELSE Response(200, [count |-> 0])

health500(res) ==
  IF IsExc(res) THEN Response(500, [error |-> str(res)])
  ELSE Response(200, [status |-> "healthy"])

health(res) ==
  IF IsExc(res) THEN Response(503, [status |-> "unhealthy", error |-> str(res)])
  ELSE Response(200, [status |-> "healthy"])

Routes == {"increment", "count", "reset", "health"}

Handler(op, res) ==
  CASE op = "increment" -> increment(res)
    [] op = "count"     -> get_count(res)
    [] op = "reset"     -> reset(res)
    [] op = "health"    -> health(res)

CommandCopyPaste(op) ==
  CASE op = "increment" -> "INCR"
    [] op = "count"     -> "GET"
    [] op = "reset"     -> "INCR"
    [] op = "health"    -> "PING"

\* the client method each handler calls
Command(op) ==
  CASE op = "increment" -> "INCR"
    [] op = "count"     -> "GET"
    [] op = "reset"     -> "SET"
    [] op = "health"    -> "PING"

\* ---- state ----------------------------------------------------------------
VARIABLES
  store,       \* value of the key 'counter' in the store
  up,          \* the store can be reached
  inflight,    \* bag of the requests being handled
  last,        \* the request answered last, with its response
  \* history variables
  lastWrite,   \* the last write the store executed: "none", "INCR" or "SET"
  epoch,       \* "fresh": no reset has been issued since the start;
               \* "resetting": a reset is being handled alone;
               \* "reset": a reset handled alone was answered 200 and no reset
               \* has been issued since; "void" otherwise
  seq,         \* every request of the epoch was issued with no other in flight
  rets,        \* counts returned by the epoch's increments, in response order
  errs         \* some increment of the epoch was answered 500

vars == <<store, up, inflight, last, lastWrite, epoch, seq, rets, errs>>

hist == <<lastWrite, epoch, seq, rets, errs>>

Idle == [pc |-> "idle"]

InFlight == BagToSet(inflight)

Quiescent == InFlight = {}

Answered == last.pc = "done"

Open == epoch \in {"fresh", "reset"}

\* the counter as GET /count reads it
StoreCount == IF store = Nil THEN 0 ELSE StrToInt(store.s)

\* increments called whose INCR the store has not executed yet
PendingIncr ==
  BagCardinality([q \in {p \in InFlight : p.pc = "call" /\ p.cmd = "INCR"}
                    |-> inflight[q]])

Init ==
  /\ store = Nil
  /\ up = TRUE
  /\ inflight = EmptyBag
  /\ last = Idle
  /\ lastWrite = "none"
  /\ epoch = "fresh"
  /\ seq = TRUE
  /\ rets = <<>>
  /\ errs = FALSE

\* request q of the bag becomes p
Step(q, p) == (inflight (-) SetToBag({q})) (+) SetToBag({p})

\* a request arrives and its handler calls the client
Call(op) ==
  /\ BagCardinality(inflight) < MaxInFlight
  /\ op = "increment" => StoreCount + PendingIncr < MaxCount
  /\ inflight' = inflight (+) SetToBag({
       [op |-> op, cmd |-> Command(op), calls |-> 1, pc |-> "call",
        res |-> Unset, resp |-> Unset, pre |-> Unset, post |-> Unset,
        saw |-> "none"]})
  /\ LET e == CASE op = "reset" /\ Quiescent -> "resetting"
                [] op = "reset" \/ epoch = "resetting" -> "void"
                [] OTHER -> epoch
     IN  /\ epoch' = e
         /\ seq' = CASE e = "void" -> FALSE
                     [] e = "resetting" -> TRUE
                     [] OTHER -> seq /\ Quiescent
         /\ rets' = IF e \in {"void", "resetting"} THEN <<>> ELSE rets
         /\ errs' = IF e \in {"void", "resetting"} THEN FALSE ELSE errs
  /\ UNCHANGED <<store, up, last, lastWrite>>

\* the store executes the command of request q; the reply is on its way back
RedisExec(q) ==
  /\ q.pc = "call"
  /\ up
  /\ LET out == Redis(q.cmd, store)
         write == q.cmd \in {"INCR", "SET"}
     IN  /\ store' = out.store
         /\ inflight' = Step(q, [q EXCEPT
                !.pc = "exec", !.res = out.reply,
                !.saw = IF q.cmd = "GET" THEN lastWrite ELSE @,
                !.pre = IF write THEN store ELSE @,
                !.post = IF write THEN out.store ELSE @])
         /\ lastWrite' = IF write THEN q.cmd ELSE lastWrite
  /\ UNCHANGED <<up, last, epoch, seq, rets, errs>>

\* the exception the client raises when the connection fails
ConnectionError(pc) ==
  IF pc = "call" THEN PyExc("Error connecting to redis")
  ELSE PyExc("Connection closed by server")

\* what the handler of request q does with the result of its client call
FinishRetry(q, res) ==
  IF IsExc(res)
  THEN [q EXCEPT !.pc = "call", !.calls = @ + 1, !.res = Unset]
  ELSE [q EXCEPT !.pc = "done", !.res = res, !.resp = Handler(q.op, res)]

Finish(q, res) ==
  [q EXCEPT !.pc = "done", !.res = res, !.resp = Handler(q.op, res)]

\* the history variables after request p has been answered
Record(p) ==
  LET ok == p.resp.status = 200
  IN  /\ epoch' = CASE p.op = "reset" /\ epoch = "resetting" ->
                         IF ok THEN "reset" ELSE "void"
                    [] OTHER -> epoch
      /\ seq' = IF p.op = "reset" /\ epoch = "resetting" THEN ok ELSE seq
      /\ rets' = IF p.op = "increment" /\ ok /\ Open
                 THEN Append(rets, p.resp.body.count) ELSE rets
      /\ errs' = IF p.op = "increment" /\ ~ok /\ Open THEN TRUE ELSE errs
      /\ UNCHANGED lastWrite

\* request q has become p: once answered, it leaves the bag
Respond(q, p) ==
  IF p.pc = "done"
  THEN /\ inflight' = inflight (-) SetToBag({q})
       /\ last' = p
       /\ Record(p)
  ELSE /\ inflight' = Step(q, p)
       /\ UNCHANGED <<last, hist>>

\* the client call of request q returns, or raises, and the handler responds
Complete(q, op) ==
  /\ q.op = op
  /\ \/ /\ q.pc = "exec"
        /\ up
        /\ Respond(q, Finish(q, q.res))
     \/ /\ ~up
        /\ Respond(q, Finish(q, ConnectionError(q.pc)))
  /\ UNCHANGED <<store, up>>

Increment(q) == Complete(q, "increment")

GetCount(q) == Complete(q, "count")

Reset(q) == Complete(q, "reset")

Health(q) == Complete(q, "health")

StoreDown ==
  /\ up
  /\ up' = FALSE
  /\ UNCHANGED <<store, inflight, last, hist>>

StoreUp ==
  /\ ~up
  /\ up' = TRUE
  /\ UNCHANGED <<store, inflight, last, hist>>

Next ==
  \/ \E op \in Routes : Call(op)
  \/ \E q \in InFlight : RedisExec(q)
  \/ \E q \in InFlight : Increment(q)
  \/ \E q \in InFlight : GetCount(q)
  \/ \E q \in InFlight : Reset(q)
  \/ \E q \in InFlight : Health(q)
  \/ StoreDown
  \/ StoreUp

Spec == Init /\ [][Next]_vars

TypeOK ==
  /\ up \in BOOLEAN
  /\ lastWrite \in {"none", "INCR", "SET"}
  /\ epoch \in {"fresh", "resetting", "reset", "void"}
  /\ seq \in BOOLEAN /\ errs \in BOOLEAN
  /\ Len(rets) <= MaxCount
  /\ BagCardinality(inflight) <= MaxInFlight
  /\ \A q \in InFlight : q.pc \in {"call", "exec"}
  /\ last.pc \in {"idle", "done"}
  /\ StoreCount \in 0..MaxCount

\* ---- properties -------------------------------------------------------------
\* the request answered last was for route op
LastIs(op) == Answered /\ last.op = op

\* the client call of the request answered last returned a reply
Returned == Answered /\ ~IsExc(last.res)

\* the client call of the request answered last raised
Raised == Answered /\ IsExc(last.res)

\* the store executed the command of the request answered last
Executed == Answered /\ last.post.t # "unset"

IncrInFlight == {q \in InFlight : q.op = "increment"}

\* some request is answered in this step
Answering == BagCardinality(inflight') < BagCardinality(inflight)

\* C1: in a run without failed increments whose requests are issued one after
\* another, starting with a reset answered 200 (or with no reset at all), the
\* k-th increment returns k and GET /count after N increments returns 200 and
\* N.
C1_SequentialCount ==
  (Open /\ seq /\ ~errs) =>
    /\ \A k \in 1..Len(rets) : rets[k] = k
    /\ (LastIs("count") /\ Returned) =>
          last.resp = Response(200, [count |-> Len(rets)])
    /\ Quiescent => StoreCount = Len(rets)

C1_Witness ==
  /\ epoch = "reset" /\ seq /\ ~errs /\ Quiescent
  /\ Len(rets) >= 2
  /\ LastIs("count") /\ last.resp = Response(200, [count |-> Len(rets)])

\* C2: when all the increments issued since the counter was absent or reset to
\* 0 have been answered 200, however they interleaved and with no reset in
\* between, the stored count is their number N and the values they returned
\* are exactly 1..N, each once.
C2_ConcurrentIncrements ==
  (Open /\ ~errs /\ IncrInFlight = {}) =>
    /\ StoreCount = Len(rets)
    /\ {rets[k] : k \in 1..Len(rets)} = 1..Len(rets)

C2_Witness ==
  /\ Open /\ ~errs /\ IncrInFlight = {} /\ ~seq
  /\ Len(rets) >= 2
  /\ rets[1] > rets[2]
  /\ StoreCount = Len(rets)

\* C3: a GET /count that the store serves after a SET of POST /reset and before
\* any later INCR returns count 0 when it succeeds.
C3_ResetThenCount ==
  (LastIs("count") /\ Returned /\ last.saw = "SET") =>
    last.resp = Response(200, [count |-> 0])

C3_Witness ==
  /\ LastIs("count") /\ last.saw = "SET"
  /\ last.resp = Response(200, [count |-> 0])
  /\ epoch = "reset"

\* C4: GET /count served while no INCR or SET has ever been executed returns
\* status 200 with count 0.
C4_AbsentKeyCount ==
  (LastIs("count") /\ Returned /\ last.saw = "none") =>
    last.resp = Response(200, [count |-> 0])

C4_Witness ==
  /\ LastIs("count") /\ Returned /\ last.saw = "none"
  /\ store = Nil /\ lastWrite = "none"
  /\ last.resp = Response(200, [count |-> 0])

\* C5: a failed store call of /increment, /count or /reset ends in status 500
\* with a JSON body holding only a non-empty error message, and any request
\* whose store call returns, also after earlier failures, ends in status 200.
C5_FailureHandled ==
  /\ (Raised /\ last.op \in {"increment", "count", "reset"}) =>
        /\ last.resp.status = 500
        /\ DOMAIN last.resp.body = {"error"}
        /\ last.resp.body.error # ""
  /\ Returned => last.resp.status = 200

\* in a run of requests issued one after another an increment was answered
\* 500 and the increment answered last got 200
C5_Witness ==
  /\ Open /\ seq /\ errs
  /\ LastIs("increment") /\ Returned
  /\ last.resp.status = 200

\* C6: GET /health answers 200 "healthy" exactly when the ping returns and 503
\* "unhealthy" with a non-empty error exactly when it raises; never 500, never
\* a count.
C6_Health ==
  LastIs("health") =>
    /\ Returned <=> last.resp = Response(200, [status |-> "healthy"])
    /\ Raised <=> /\ last.resp.status = 503
                  /\ DOMAIN last.resp.body = {"status", "error"}
                  /\ last.resp.body.status = "unhealthy"
                  /\ last.resp.body.error # ""
    /\ last.resp.status # 500
    /\ "count" \notin DOMAIN last.resp.body

C6_Witness ==
  /\ LastIs("health") /\ Raised
  /\ last.resp.status = 503

\* C7: the counter key is absent or holds the decimal text of a non-negative
\* integer, and every count in a 200 response is a non-negative integer.
C7_NonNegative ==
  /\ store = Nil \/ (IsIntStr(store.s) /\ StrToInt(store.s) >= 0)
  /\ (Answered /\ last.resp.status = 200 /\ "count" \in DOMAIN last.resp.body)
        => last.resp.body.count \in Nat
  /\ \A k \in 1..Len(rets) : rets[k] \in Nat

C7_Witness ==
  /\ errs
  /\ store # Nil /\ StoreCount >= 2
  /\ LastIs("count") /\ last.resp.status = 200 /\ last.resp.body.count >= 2

\* C8: every request makes exactly one client call, the one of its route, and
\* a request whose call raised ends in an error response, also when the store
\* is reachable again.
C8_OneCallNoRetry ==
  /\ \A q \in InFlight : q.calls = 1
  /\ Answered =>
        /\ last.calls = 1
        /\ last.cmd = CASE last.op = "increment" -> "INCR"
                        [] last.op = "count"     -> "GET"
                        [] last.op = "reset"     -> "SET"
                        [] last.op = "health"    -> "PING"
        /\ IsExc(last.res) => last.resp.status \in {500, 503}

C8_Witness ==
  /\ Raised /\ up
  /\ last.op = "increment" /\ last.calls = 1
  /\ last.resp.status = 500

\* C9: no step of a GET /count or GET /health request changes the store,
\* whether the request succeeds or fails.
C9_ReadOnly ==
  [][\A q \in InFlight :
       (q.op \in {"count", "health"}
          /\ CopiesIn(q, inflight') < CopiesIn(q, inflight))
       => store' = store]_vars

C9_Witness ==
  /\ LastIs("count") /\ Returned /\ last.saw = "none"
  /\ last.resp = Response(200, [count |-> 0])
  /\ store = Nil

====
